---- MODULE Spec2Model ----
(***************************************************************************)
(* A model of the svunit Python runner (bin/svunit): test discovery,       *)
(* suite/runner generation, the .svunit.f manifest, backend selection and  *)
(* the backend adapters' process chains.                                   *)
(*                                                                         *)
(* Text is a sequence of symbols.  A symbol is a single character, or one  *)
(* of the fixed words "_unit_test", "_testsuite", "_ut", "_ts" and the     *)
(* install-relative library paths, which the code only ever handles as a   *)
(* whole; in the text of a test file the words "module", "static" and      *)
(* "automatic" are symbols too.  A path is a sequence of components (each  *)
(* a text), absolute.                                                      *)
(*                                                                         *)
(* Environment assumptions: every path of the tree whose name ends in      *)
(* _unit_test.sv is a readable regular file, the output directory is       *)
(* writable, and explicit test names are plain file names.                 *)
(***************************************************************************)
EXTENDS Integers, Sequences, FiniteSets, TLC

VARIABLES
    \* ---- inputs of one invocation (argv, file tree, environment) ----
    fs,               \* the file tree: file path -> the text of the file
    directories,      \* args.directory, resolved (<<>>: option absent)
    tests,            \* args.tests (<<>>: option absent)
    scanReverse,      \* the order in which the OS lists directory entries
    \* ---- TestDiscovery ----
    found_tests,      \* TestDiscovery.found_tests
    suites,           \* the dict returned by get_test_suites, in insertion order
    calls,            \* number of discover() calls made so far
    \* ---- more inputs of main() ----
    simulator_arg,    \* args.simulator ("": option absent)
    uvm,              \* args.uvm
    enable_experimental, \* args.enable_experimental
    vhdlfile,         \* args.vhdlfile given
    r_arg,            \* args.r_arg: the -r values, each the flags it holds
    present,          \* the launchers `which` finds on PATH
    \* ---- main() ----
    f,                \* what main has written to the open .svunit.f
    svunit_f,         \* the text of outdir/.svunit.f on disk
    artifacts,        \* generated .sv files on disk: path -> what was generated
    writes,           \* the paths this run has opened for writing, in order
    generated_test_suites,
    suite_idx,        \* position of the loop over suites.items()
    simulator,        \* the adapter object
    launched,         \* the external processes started so far, with their exit status
    run_result,       \* what simulator.run() returned
    exit_code,        \* what main returned (-1: still running)
    pc,               \* position in the program
    \* ---- what the program prints and what it calls ----
    warnings,         \* the warnings printed so far
    codegen_calls,    \* the calls made on the SvUnitCodeGen object, with what they produced
    \* ---- the adapter object ----
    sim_args,         \* Simulator.sim_args
    sim_cmd,          \* the arguments of the simulation program in the last command built
    manifest_read,    \* the text of .svunit.f when the last command was handed to the shell
    artifacts_read,   \* the generated files on disk at that moment
    \* ---- a second invocation of the program on the same machine ----
    other,            \* the suspended invocation's own state (NoRun: there is none)
    overlapped        \* an invocation was suspended between its first and its last step

discVars == <<fs, directories, tests, scanReverse, found_tests, suites, calls>>
argVars == <<simulator_arg, uvm, enable_experimental, vhdlfile, r_arg, present>>
genVars == <<f, svunit_f, artifacts, writes, generated_test_suites, suite_idx>>
simVars == <<simulator, launched, run_result, exit_code>>
adapterVars == <<sim_args, sim_cmd, manifest_read, artifacts_read>>
schedVars == <<other, overlapped>>

(***************************************************************************)
(* Bounds of the model.                                                    *)
(***************************************************************************)
MaxFiles == 3      \* files in the tree (discovery)
MaxRoots == 2      \* length of args.directory (discovery)
MaxTests == 2      \* length of args.tests (discovery)
MaxCalls == 2      \* discover() calls on one TestDiscovery object
MaxSuiteFiles == 2 \* files in the tree (runs of main that generate)
MaxExit == 1       \* largest exit status of an external process
MaxPieces == 3     \* pieces a manifest text is put together from (Xsim's rewrite)
MaxRuns == 2       \* run() calls on one Xsim adapter
MaxCodegenCalls == 2 \* calls on one SvUnitCodeGen object
MaxSimArgs == 2    \* -r options on the command line (ModelSim's mode flag)

(***************************************************************************)
(* Text and paths.                                                         *)
(***************************************************************************)
UnitTestSv == <<"_unit_test", ".", "s", "v">>

EndsWith(s, suf) ==
    /\ Len(s) >= Len(suf)
    /\ SubSeq(s, Len(s) - Len(suf) + 1, Len(s)) = suf

IsPrefix(p, q) == Len(p) <= Len(q) /\ SubSeq(q, 1, Len(p)) = p

Parent(p) == SubSeq(p, 1, Len(p) - 1)

Name(p) == p[Len(p)]

Join(dir, name) == Append(dir, name)

Cwd == << <<"w">> >>
DirA == << <<"w">>, <<"a">> >>
DirB == << <<"w">>, <<"b">> >>
DirAC == << <<"w">>, <<"a">>, <<"c">> >>
Outside == << <<"x">> >>
MissingDir == << <<"m">> >>
DirSv == << <<"w">>, <<"s", "v">> >>
\* Directories of the working directory named a_c, a.c and a-c.
DirA_C == << <<"w">>, <<"a", "_", "c">> >>
DirAdotC == << <<"w">>, <<"a", ".", "c">> >>
DirAdashC == << <<"w">>, <<"a", "-", "c">> >>

ExistingDirs == {Cwd, DirA, DirB, DirAC, Outside, DirSv, DirA_C, DirAdotC, DirAdashC}

F_ut == <<"f">> \o UnitTestSv
G_ut == <<"g">> \o UnitTestSv
H_sv == <<"h", ".", "s", "v">>

\* The files a tree may hold.
FileUniverse ==
    { Join(Cwd, F_ut), Join(DirA, F_ut), Join(DirA, G_ut), Join(DirA, H_sv),
      Join(DirAC, G_ut), Join(DirB, F_ut), Join(Outside, G_ut) }

\* The module identifier a well-formed test file declares: its stem.
DeclaredBy(p) == SubSeq(Name(p), 1, Len(Name(p)) - 3)

\* The text of a file that declares the module and nothing else.
ModuleText(id) == <<"module", " ">> \o id \o <<";", "\n">>

RootUniverse == {Cwd, DirA, DirAC, MissingDir}

TestNameUniverse == {<<"f">>, F_ut, H_sv, <<"n">>}

RECURSIVE SeqsUpTo(_, _)
SeqsUpTo(S, n) ==
    IF n = 0 THEN {<<>>}
    ELSE LET shorter == SeqsUpTo(S, n - 1)
         IN  shorter \cup {Append(s, x) : s \in {t \in shorter : Len(t) = n - 1}, x \in S}

(***************************************************************************)
(* The file system as pathlib sees it.                                     *)
(***************************************************************************)
Exists(p) == p \in DOMAIN fs \/ p \in ExistingDirs

\* os.scandir's order of sibling entries: by first symbol, either way round.
Rank(comp) ==
    LET r == CASE comp[1] = "a" -> 1 [] comp[1] = "b" -> 2 [] comp[1] = "c" -> 3
               [] comp[1] = "f" -> 4 [] comp[1] = "g" -> 5 [] comp[1] = "h" -> 6
               [] OTHER -> 7
    IN  IF scanReverse THEN 8 - r ELSE r

RECURSIVE FirstDiff(_, _, _)
FirstDiff(p, q, i) == IF p[i] # q[i] THEN i ELSE FirstDiff(p, q, i + 1)

\* Path.rglob visits a directory's own matches before its subdirectories.
VisitedBefore(p, q) ==
    LET dp == Parent(p)
        dq == Parent(q)
    IN  IF dp = dq THEN Rank(Name(p)) < Rank(Name(q))
        ELSE IF IsPrefix(dp, dq) THEN TRUE
        ELSE IF IsPrefix(dq, dp) THEN FALSE
        ELSE LET i == FirstDiff(dp, dq, 1) IN Rank(dp[i]) < Rank(dq[i])

RECURSIVE InVisitOrder(_)
InVisitOrder(S) ==
    IF S = {} THEN <<>>
    ELSE LET first == CHOOSE p \in S : \A q \in S \ {p} : VisitedBefore(p, q)
         IN  <<first>> \o InVisitOrder(S \ {first})

\* A glob that lists only the directory itself.
rglob_flat(directory) ==
    InVisitOrder({p \in DOMAIN fs : /\ Parent(p) = directory
                                    /\ EndsWith(Name(p), UnitTestSv)})

rglob(directory) ==
    InVisitOrder({p \in DOMAIN fs : /\ IsPrefix(directory, Parent(p))
                                    /\ EndsWith(Name(p), UnitTestSv)})

(***************************************************************************)
(* discovery.py                                                            *)
(***************************************************************************)
\* A search that takes every name as it is given.
RECURSIVE find_named_as_given(_, _, _, _)
find_named_as_given(found, directory, names, i) ==
    IF i > Len(names) THEN found
    ELSE LET test_path == Join(directory, names[i])
         IN  IF Exists(test_path)
             THEN find_named_as_given(Append(found, test_path), directory, names, i + 1)
             ELSE find_named_as_given(found, directory, names, i + 1)

RECURSIVE find_named(_, _, _, _)
find_named(found, directory, names, i) ==
    IF i > Len(names) THEN found
    ELSE LET test == names[i]
             test_path == Join(directory, test)
             test_path_suffix == Join(directory, test \o UnitTestSv)
         IN  IF Exists(test_path)
             THEN find_named(Append(found, test_path), directory, names, i + 1)
             ELSE IF ~EndsWith(test, UnitTestSv) /\ Exists(test_path_suffix)
             THEN find_named(Append(found, test_path_suffix), directory, names, i + 1)
             ELSE find_named(found, directory, names, i + 1)

find_tests_in_directory(found, directory) ==
    IF ~Exists(directory) THEN found
    ELSE IF tests # <<>> THEN find_named(found, directory, tests, 1)
    ELSE found \o rglob(directory)

\* TestDiscovery.__init__: no directories given means the working directory.
SearchDirs == IF directories # <<>> THEN directories ELSE <<Cwd>>

RECURSIVE discover_from(_, _)
discover_from(found, i) ==
    IF i > Len(SearchDirs) THEN found
    ELSE discover_from(find_tests_in_directory(found, SearchDirs[i]), i + 1)

discover == discover_from(<<>>, 1)

\* The warnings discover() prints: one for each directory that does not exist.
discover_warnings ==
    LET missing == {i \in 1..Len(SearchDirs) : ~Exists(SearchDirs[i])}
        Nth(k) == CHOOSE i \in missing : Cardinality({j \in missing : j < i}) = k - 1
    IN  [k \in 1..Cardinality(missing) |->
            [kind |-> "Directory does not exist", about |-> SearchDirs[Nth(k)]]]

RECURSIVE group_suites(_, _, _)
group_suites(acc, found, i) ==
    IF i > Len(found) THEN acc
    ELSE LET test_file == found[i]
             parent_dir == Parent(test_file)
         IN  IF \E k \in 1..Len(acc) : acc[k].dir = parent_dir
             THEN LET k == CHOOSE k \in 1..Len(acc) : acc[k].dir = parent_dir
                  IN  group_suites([acc EXCEPT ![k].tests = Append(@, test_file)], found, i + 1)
             ELSE group_suites(Append(acc, [dir |-> parent_dir, tests |-> <<test_file>>]),
                               found, i + 1)

get_test_suites(found) == group_suites(<<>>, found, 1)

(***************************************************************************)
(* Calls on one TestDiscovery object.                                      *)
(***************************************************************************)
Trees(n) ==
    { [p \in S |-> ModuleText(DeclaredBy(p))] :
        S \in {T \in SUBSET FileUniverse : Cardinality(T) <= n} }

(***************************************************************************)
(* Text operations of Python's str.                                        *)
(***************************************************************************)
StartsWith(s, pre) == Len(s) >= Len(pre) /\ SubSeq(s, 1, Len(pre)) = pre

\* str.replace(old, new): leftmost occurrences, never overlapping.
RECURSIVE Replace(_, _, _)
Replace(s, old, new) ==
    LET found == {i \in 1..(Len(s) - Len(old) + 1) : SubSeq(s, i, i + Len(old) - 1) = old}
    IN  IF found = {} THEN s
        ELSE LET i == CHOOSE i \in found : \A j \in found : i <= j
             IN  SubSeq(s, 1, i - 1) \o new
                     \o Replace(SubSeq(s, i + Len(old), Len(s)), old, new)

\* str(path) of an absolute path.
RECURSIVE Str(_)
Str(p) == IF p = <<>> THEN <<>> ELSE <<"/">> \o Head(p) \o Str(Tail(p))

\* str(path) of a relative path; the empty one is ".".
StrRel(p) == IF p = <<>> THEN <<".">> ELSE Tail(Str(p))

\* Path.stem: the name without its last suffix.
RECURSIVE LastDot(_, _)
LastDot(name, i) == IF i = 0 \/ name[i] = "." THEN i ELSE LastDot(name, i - 1)

Stem(name) ==
    LET i == LastDot(name, Len(name))
    IN  IF i > 1 /\ i < Len(name) THEN SubSeq(name, 1, i - 1) ELSE name

\* The texts of a list, one after the other.
RECURSIVE Flatten(_)
Flatten(ss) == IF ss = <<>> THEN <<>> ELSE Head(ss) \o Flatten(Tail(ss))

NL == <<"\n">>
Incdir == <<"+", "i", "n", "c", "d", "i", "r", "+">>
Install == <<"svunit_install">>

(***************************************************************************)
(* codegen.py                                                              *)
(***************************************************************************)
\* The first index from which text s reads pat, at or after index from (0: none).
Find(s, pat, from) ==
    LET at == {i \in from..(Len(s) - Len(pat) + 1) : SubSeq(s, i, i + Len(pat) - 1) = pat}
    IN  IF at = {} THEN 0 ELSE CHOOSE i \in at : \A j \in at : i <= j

\* re.sub(r'//.*', '', content): "." stops at the end of the line.
RECURSIVE sub_line_comments(_)
sub_line_comments(content) ==
    LET i == Find(content, <<"/", "/">>, 1)
        j == Find(content, NL, i + 2)
    IN  IF i = 0 THEN content
        ELSE SubSeq(content, 1, i - 1)
                 \o (IF j = 0 THEN <<>>
                     ELSE sub_line_comments(SubSeq(content, j, Len(content))))

\* re.sub(r'/\*.*?\*/', '', content, flags=re.DOTALL): up to the nearest "*/".
RECURSIVE sub_block_comments(_)
sub_block_comments(content) ==
    LET i == Find(content, <<"/", "*">>, 1)
        j == Find(content, <<"*", "/">>, i + 2)
    IN  IF i = 0 \/ j = 0 THEN content
        ELSE SubSeq(content, 1, i - 1)
                 \o sub_block_comments(SubSeq(content, j + 2, Len(content)))

\* \s and \w of the regular expressions, on symbols.
IsSpace(c) == c \in {" ", "\n"}
IsWord(c) == c \notin {" ", "\n", "/", "*", ";", "+", "-", "."}

\* re.sub(r'\bword\b', '', content)
sub_word(content, word) ==
    LET keep == {i \in 1..Len(content) :
                    ~ /\ content[i] = word
                      /\ i = 1 \/ ~IsWord(content[i - 1])
                      /\ i = Len(content) \/ ~IsWord(content[i + 1])}
        Nth(k) == CHOOSE i \in keep : Cardinality({j \in keep : j < i}) = k - 1
    IN  [k \in 1..Cardinality(keep) |-> content[Nth(k)]]

\* The first index at or after from whose symbol is not white space, or
\* not part of a word (Len + 1: none).
SkipSpace(s, from) ==
    LET at == {i \in from..Len(s) : ~IsSpace(s[i])}
    IN  IF at = {} THEN Len(s) + 1 ELSE CHOOSE i \in at : \A j \in at : i <= j

SkipWord(s, from) ==
    LET at == {i \in from..Len(s) : ~IsWord(s[i])}
    IN  IF at = {} THEN Len(s) + 1 ELSE CHOOSE i \in at : \A j \in at : i <= j

\* What r'^\s*module\s+(\w+_unit_test)\s*;' captures when its "module" is the
\* symbol at i; <<>> when it does not match there.
module_at(s, i) ==
    LET before == {k \in 1..i : \A m \in k..(i - 1) : IsSpace(s[m])}
        line_start == 1 \in before \/ \E k \in before : \E m \in k..(i - 1) : s[m] = "\n"
        a == SkipSpace(s, i + 1)
        b == SkipWord(s, a)
        c == SkipSpace(s, b)
        name == SubSeq(s, a, b - 1)
    IN  IF /\ s[i] = "module"
           /\ line_start
           /\ a > i + 1
           /\ Len(name) >= 2 /\ name[Len(name)] = "_unit_test"
           /\ c <= Len(s) /\ s[c] = ";"
        THEN name ELSE <<>>

\* re.search: the leftmost match.
search_module(s) ==
    LET at == {i \in 1..Len(s) : module_at(s, i) # <<>>}
    IN  IF at = {} THEN <<>>
        ELSE module_at(s, CHOOSE i \in at : \A j \in at : i <= j)

\* What _parse_unit_test_name finds in the text of a file; <<>> stands for None.
extract_name(content) ==
    search_module(sub_word(sub_word(sub_block_comments(sub_line_comments(content)),
                                    "static"), "automatic"))

\* The module name found in a test file.
parse_unit_test_name(file_path) == extract_name(fs[file_path])

RECURSIVE unit_test_names(_)
unit_test_names(unit_tests) ==
    IF unit_tests = <<>> THEN <<>>
    ELSE LET module_name == parse_unit_test_name(Head(unit_tests))
         IN  (IF module_name # <<>> THEN <<module_name>> ELSE <<>>)
                 \o unit_test_names(Tail(unit_tests))

\* The warnings create_testsuite prints: one for each file without a module name.
RECURSIVE create_testsuite_warnings(_)
create_testsuite_warnings(unit_tests) ==
    IF unit_tests = <<>> THEN <<>>
    ELSE (IF parse_unit_test_name(Head(unit_tests)) = <<>>
          THEN << [kind |-> "Could not find module name", about |-> Head(unit_tests)] >>
          ELSE <<>>)
             \o create_testsuite_warnings(Tail(unit_tests))

\* A generator that tells the instances apart by their place in the list.
create_testsuite_by_place(output_file, unit_tests) ==
    LET class_name == Replace(Stem(Name(output_file)), <<".">>, <<>>)
        unit_test_classes == unit_test_names(unit_tests)
    IN  [ class_name    |-> class_name,
          instance_name |-> Replace(class_name, <<"_testsuite">>, <<"_ts">>),
          classes       |-> unit_test_classes,
          instances     |-> [k \in 1..Len(unit_test_classes) |->
                                IF k = 1 THEN <<"first", "_ut">>
                                ELSE Replace(unit_test_classes[k], <<"_unit_test">>, <<"_ut">>)] ]

\* What create_testsuite writes to output_file: the parts of the text
\* that are not fixed.
create_testsuite(output_file, unit_tests) ==
    LET class_name == Replace(Stem(Name(output_file)), <<".">>, <<>>)
        unit_test_classes == unit_test_names(unit_tests)
    IN  [ class_name    |-> class_name,
          instance_name |-> Replace(class_name, <<"_testsuite">>, <<"_ts">>),
          classes       |-> unit_test_classes,
          instances     |-> [k \in 1..Len(unit_test_classes) |->
                                Replace(unit_test_classes[k], <<"_unit_test">>, <<"_ut">>)] ]

create_testrunner(output_file, test_suites) ==
    LET suite_classes == [k \in 1..Len(test_suites) |->
            Replace(Replace(Name(test_suites[k]), <<".", "s", "v">>, <<>>), <<".">>, <<>>)]
    IN  [ class_name    |-> <<"testrunner">>,
          instance_name |-> <<"testrunner">>,
          classes       |-> suite_classes,
          instances     |-> [k \in 1..Len(test_suites) |->
                                Replace(suite_classes[k], <<"_testsuite">>, <<"_ts">>)] ]

(***************************************************************************)
(* main.py: the manifest and the generated files.                          *)
(***************************************************************************)
OutDir == Cwd
svunit_f_path == Join(OutDir, <<".", "svunit", ".", "f">>)
tr_path == Join(OutDir, <<".", "testrunner", ".", "s", "v">>)

Sanitize(text) ==
    Replace(Replace(Replace(text, <<"/">>, <<"_">>), <<".">>, <<"_">>), <<"-">>, <<"_">>)

dir_id(suite_dir) ==
    IF IsPrefix(Cwd, suite_dir)
    THEN Sanitize(StrRel(SubSeq(suite_dir, Len(Cwd) + 1, Len(suite_dir))))
    ELSE LET id == Sanitize(Str(suite_dir))
         IN  IF StartsWith(id, <<"_">>) THEN Tail(id) ELSE id

ts_path(suite_dir) ==
    Join(OutDir, <<".">> \o dir_id(suite_dir) \o <<"_testsuite", ".", "s", "v">>)

BaseLines ==
    Incdir \o Str(Cwd) \o NL
    \o Incdir \o Install \o <<"/svunit_base/junit-xml">> \o NL
    \o Install \o <<"/svunit_base/junit-xml/junit_xml.sv">> \o NL
    \o Incdir \o Install \o <<"/svunit_base">> \o NL
    \o Install \o <<"/svunit_base/svunit_pkg.sv">> \o NL

UvmLines ==
    Incdir \o Install \o <<"/svunit_base/uvm-mock">> \o NL
    \o Install \o <<"/svunit_base/uvm-mock/svunit_uvm_mock_pkg.sv">> \o NL

ExperimentalLines ==
    Incdir \o Install \o <<"/src/experimental/sv">> \o NL
    \o Install \o <<"/src/experimental/sv/svunit.sv">> \o NL

RECURSIVE TestLines(_)
TestLines(ts) == IF ts = <<>> THEN <<>> ELSE Str(Head(ts)) \o NL \o TestLines(Tail(ts))

\* The same lines with the artifact's path written first.
SuiteLines_artifact_first(suite) ==
    Str(ts_path(suite.dir)) \o NL
    \o TestLines(suite.tests)
    \o Incdir \o Str(suite.dir) \o NL

\* The lines main appends for one suite, after generating its artifact.
SuiteLines(suite) ==
    TestLines(suite.tests)
    \o Incdir \o Str(suite.dir) \o NL
    \o Str(ts_path(suite.dir)) \o NL

\* A file opened for update is left as it is.
open_keep(content) == content

\* open(path, 'w') empties the file.
open_w(content) == <<>>

\* Closing the file writes what was buffered, from the start of the file.
write_back(content, buffer) == buffer \o SubSeq(content, Len(buffer) + 1, Len(content))

WithFile(files, path, content) ==
    [q \in DOMAIN files \cup {path} |-> IF q = path THEN content ELSE files[q]]

NoSimulator == [kind |-> "None", name |-> "", executable |-> ""]

(***************************************************************************)
(* simulators.py                                                           *)
(***************************************************************************)
ModelSim == [kind |-> "ModelSim", name |-> "modelsim", executable |-> "vsim"]
Irun == [kind |-> "Irun", name |-> "irun", executable |-> "irun"]
\* Xrun inherits Irun.run and renames itself.
Xrun == [kind |-> "Irun", name |-> "xrun", executable |-> "xrun"]
Vcs == [kind |-> "Vcs", name |-> "vcs", executable |-> "vcs"]
Verilator == [kind |-> "Verilator", name |-> "verilator", executable |-> "verilator"]
Xsim == [kind |-> "Xsim", name |-> "xsim", executable |-> "xsim"]
Dsim == [kind |-> "Dsim", name |-> "dsim", executable |-> "dsim"]
Qrun == [kind |-> "Qrun", name |-> "qrun", executable |-> "qrun"]

\* str.lower on the names the model passes.
Lower(name) == CASE name = "VCS" -> "vcs" [] name = "Xsim" -> "xsim" [] OTHER -> name

get_simulator(given) ==
    LET name == Lower(given)
    IN  CASE name = "modelsim" \/ name = "questa" -> ModelSim
          [] name = "irun" \/ name = "ius" -> Irun
          [] name = "xrun" \/ name = "xcelium" -> Xrun
          [] name = "vcs" -> Vcs
          [] name = "verilator" -> Verilator
          [] name = "xsim" -> Xsim
          [] name = "dsim" -> Dsim
          [] name = "qrun" -> Qrun
          [] name = "riviera" -> [ModelSim EXCEPT !.name = "riviera"]
          [] OTHER -> NoSimulator

\* The order in which detect_simulator probes PATH, turned round for two launchers.
sims_swapped == <<"xrun", "irun", "qrun", "vsim", "vcs", "dsim", "xsim", "verilator">>

sims == <<"xrun", "irun", "qrun", "vsim", "vcs", "dsim", "verilator", "xsim">>

SimulatorOf(sim) ==
    CASE sim = "vsim" -> ModelSim
      [] sim = "xrun" -> Xrun
      [] sim = "irun" -> Irun
      [] sim = "vcs" -> Vcs
      [] sim = "verilator" -> Verilator
      [] sim = "xsim" -> Xsim
      [] sim = "dsim" -> Dsim
      [] sim = "qrun" -> Qrun

\* One `which <sim>` process per probe, until one exits with status 0.
RECURSIVE detect_from(_)
detect_from(i) ==
    IF i > Len(sims) THEN [simulator |-> NoSimulator, probes |-> <<>>]
    ELSE LET found == sims[i] \in present
             probe == [by |-> "detect", prog |-> "which", arg |-> sims[i],
                       status |-> IF found THEN 0 ELSE 1]
         IN  IF found THEN [simulator |-> SimulatorOf(sims[i]), probes |-> <<probe>>]
             ELSE LET rest == detect_from(i + 1)
                  IN  [simulator |-> rest.simulator, probes |-> <<probe>> \o rest.probes]

detect_simulator == detect_from(1)

\* The shell command each run() builds: pipelines joined by &&, each
\* pipeline the programs joined by |.  Arguments do not decide the status.
CommandChain(sim) ==
    CASE sim.kind = "ModelSim" ->
            << <<"vlib">> >> \o (IF vhdlfile THEN << <<"vcom">> >> ELSE <<>>)
                \o << <<"vlog">>, <<"vsim">> >>
      [] sim.kind = "Irun" -> << <<sim.executable>> >>
      [] sim.kind = "Vcs" -> << <<sim.executable>> >>
      [] sim.kind = "Verilator" -> << <<"verilator">>, <<"obj_dir/Vtestrunner", "tee">> >>
      [] sim.kind = "Xsim" ->
            (IF vhdlfile THEN << <<"xvhdl">> >> ELSE <<>>)
                \o << <<"xvlog">>, <<"xelab">>, <<"xsim">> >>
      [] sim.kind = "Dsim" -> << <<sim.executable>> >>
      [] sim.kind = "Qrun" -> << <<sim.executable>> >>

RECURSIVE NumProcs(_)
NumProcs(chain) == IF chain = <<>> THEN 0 ELSE Len(Head(chain)) + NumProcs(Tail(chain))

\* sh -c "p1 && p2 && ...": a pipeline's status is that of its last
\* program; && runs the next pipeline only after status 0.  st gives the
\* exit status of the k-th program started.
RECURSIVE sh(_, _, _)
sh(chain, st, k) ==
    LET pl == Head(chain)
        procs == [j \in 1..Len(pl) |->
                     [by |-> "run", prog |-> pl[j], arg |-> "", status |-> st[k + j]]]
        status == st[k + Len(pl)]
    IN  IF status # 0 \/ Len(chain) = 1
        THEN [procs |-> procs, status |-> status]
        ELSE LET rest == sh(Tail(chain), st, k + Len(pl))
             IN  [procs |-> procs \o rest.procs, status |-> rest.status]

\* Simulator._run_command
run_command(chain, st) ==
    LET r == sh(chain, st, 0)
    IN  [procs |-> r.procs, ok |-> r.status = 0]

\* A Verilator that checks nothing before it starts.
VerilatorRefuses_never(sim) == FALSE

\* Verilator.run returns False at once for UVM or VHDL.
VerilatorRefuses(sim) == sim.kind = "Verilator" /\ (uvm \/ vhdlfile)

\* ModelSim.run adds -c to the adapter's sim_args unless one of its elements
\* is a mode flag.  An element is one -r value: the flags it holds.
has_mode_flag(args) == \E k \in 1..Len(args) : args[k] \in {<<"-c">>, <<"-gui">>, <<"-i">>}

modelsim_sim_args(args) == IF has_mode_flag(args) THEN args ELSE Append(args, <<"-c">>)

XsimInclude == <<"-", "-", "i", "n", "c", "l", "u", "d", "e", " ">>

\* A rewrite that stops after the first occurrence (str.replace with count 1).
XsimRewrite_first_only(content) ==
    LET found == {i \in 1..(Len(content) - Len(Incdir) + 1) :
                     SubSeq(content, i, i + Len(Incdir) - 1) = Incdir}
    IN  IF found = {} THEN content
        ELSE LET i == CHOOSE i \in found : \A j \in found : i <= j
             IN  SubSeq(content, 1, i - 1) \o XsimInclude
                     \o SubSeq(content, i + Len(Incdir), Len(content))

\* Xsim.run rewrites outdir/.svunit.f in place before it builds its command.
XsimRewrite(content) == Replace(content, Incdir, XsimInclude)

\* No second invocation.
NoRun == [pc |-> "none"]

\* main() is not running.
IdleMain ==
    /\ r_arg = <<>>
    /\ simulator_arg = ""
    /\ uvm = FALSE
    /\ enable_experimental = FALSE
    /\ vhdlfile = FALSE
    /\ present = {}
    /\ f = <<>>
    /\ svunit_f = <<>>
    /\ artifacts = <<>>
    /\ writes = <<>>
    /\ generated_test_suites = <<>>
    /\ suite_idx = 0
    /\ simulator = NoSimulator
    /\ launched = <<>>
    /\ run_result = "none"
    /\ exit_code = -1
    /\ codegen_calls = <<>>
    /\ sim_args = <<>>
    /\ sim_cmd = <<>>
    /\ manifest_read = <<>>
    /\ artifacts_read = <<>>
    /\ other = NoRun
    /\ overlapped = FALSE

\* With test names the directories are not listed, so their order is of no
\* account; the roots are the working directory, one below it, a missing one.
InitDiscovery ==
    /\ fs \in Trees(MaxFiles)
    /\ \/ /\ tests = <<>>
          /\ directories \in SeqsUpTo(RootUniverse, MaxRoots)
          /\ scanReverse \in BOOLEAN
       \/ /\ tests \in SeqsUpTo(TestNameUniverse, MaxTests) \ {<<>>}
          /\ directories \in SeqsUpTo(RootUniverse \ {DirAC}, MaxRoots)
          /\ scanReverse = FALSE
    /\ found_tests = <<>>
    /\ suites = <<>>
    /\ calls = 0
    /\ warnings = <<>>
    /\ pc = "object"
    /\ IdleMain

DiscoverCall ==
    /\ pc \in {"object", "discovered", "grouped"}
    /\ calls < MaxCalls
    /\ calls' = calls + 1
    /\ found_tests' = discover
    /\ warnings' = warnings \o discover_warnings
    /\ pc' = "discovered"
    /\ UNCHANGED <<fs, directories, tests, scanReverse, suites>>
    /\ UNCHANGED <<argVars, genVars, simVars, codegen_calls, adapterVars, schedVars>>

GetTestSuitesCall ==
    /\ pc = "discovered"
    /\ suites' = get_test_suites(found_tests)
    /\ pc' = "grouped"
    /\ UNCHANGED <<fs, directories, tests, scanReverse, found_tests, calls>>
    /\ UNCHANGED <<argVars, genVars, simVars, warnings, codegen_calls, adapterVars, schedVars>>

vars == <<discVars, argVars, genVars, simVars, pc, warnings, codegen_calls,
          adapterVars, schedVars>>

NextDiscovery == DiscoverCall \/ GetTestSuitesCall

SpecDiscovery == InitDiscovery /\ [][NextDiscovery]_vars

(***************************************************************************)
(* main(): one run of the program.                                         *)
(***************************************************************************)
Launchers == {sims[i] : i \in 1..Len(sims)}

SimulatorNames ==
    {"modelsim", "questa", "irun", "ius", "xrun", "xcelium", "vcs", "verilator",
     "xsim", "dsim", "qrun", "riviera", "VCS", "bogus"}

\* Trees whose test files may be empty.
TreesAnyContent(n) ==
    UNION { { [p \in S |-> IF p \in Q THEN ModuleText(DeclaredBy(p)) ELSE <<>>] :
              Q \in SUBSET S } :
            S \in {T \in SUBSET FileUniverse : Cardinality(T) <= n} }

\* Runs that exercise generation: any small tree, a few backends.
InitGeneration ==
    /\ fs \in TreesAnyContent(MaxSuiteFiles)
    /\ directories \in {<<>>, <<Outside, DirA>>}
    /\ tests = <<>>
    /\ scanReverse \in BOOLEAN
    /\ uvm \in BOOLEAN
    /\ enable_experimental \in BOOLEAN
    /\ vhdlfile = FALSE
    /\ r_arg = <<>>
    /\ \/ simulator_arg \in {"Xsim", "bogus"} /\ present = {}
       \/ simulator_arg = "" /\ present \in {{}, {"verilator", "xsim"}}

\* Runs that exercise backend selection: every name, every PATH.
InitSelection ==
    /\ fs \in {<<>>} \cup Trees(1)
    /\ directories = <<>>
    /\ tests = <<>>
    /\ scanReverse = FALSE
    /\ uvm \in BOOLEAN
    /\ enable_experimental = FALSE
    /\ vhdlfile \in BOOLEAN
    /\ r_arg = <<>>
    /\ \/ simulator_arg \in SimulatorNames /\ present = {}
       \/ simulator_arg = "" /\ present \in SUBSET Launchers

\* Runs told to search a directory that does not exist, or for a test that
\* is nowhere.
InitReduced ==
    /\ fs \in Trees(1)
    /\ directories \in {<<>>, <<MissingDir>>, <<MissingDir, DirA>>}
    /\ tests \in {<<>>, << <<"n">> >>, << <<"n">>, <<"f">> >>}
    /\ scanReverse = FALSE
    /\ uvm = FALSE
    /\ enable_experimental = FALSE
    /\ vhdlfile = FALSE
    /\ r_arg = <<>>
    /\ simulator_arg = "" /\ present \in {{}, {"vcs"}}

\* Runs over a tree with a directory named sv.
InitLayout ==
    /\ fs \in { [p \in S |-> ModuleText(DeclaredBy(p))] :
                  S \in {{Join(DirSv, F_ut)}, {Join(DirSv, F_ut), Join(DirA, G_ut)}} }
    /\ directories = <<>>
    /\ tests = <<>>
    /\ scanReverse \in BOOLEAN
    /\ uvm = FALSE
    /\ enable_experimental = FALSE
    /\ vhdlfile = FALSE
    /\ r_arg = <<>>
    /\ simulator_arg = "dsim" /\ present = {}

\* Runs told to search two directories whose names differ in a separator
\* only: a/c, a_c, a.c, a-c.
SeparatorDirs == {DirAC, DirA_C, DirAdotC, DirAdashC}

InitSeparators ==
    /\ \E d1, d2 \in SeparatorDirs :
          /\ d1 # d2
          /\ directories = <<d1, d2>>
          /\ fs = [p \in {Join(d1, F_ut), Join(d2, G_ut)} |-> ModuleText(DeclaredBy(p))]
    /\ tests = <<>>
    /\ scanReverse = FALSE
    /\ uvm = FALSE
    /\ enable_experimental = FALSE
    /\ vhdlfile = FALSE
    /\ r_arg = <<>>
    /\ simulator_arg = "dsim" /\ present = {}

Init ==
    /\ InitGeneration \/ InitSelection \/ InitReduced \/ InitLayout \/ InitSeparators
    /\ found_tests = <<>>
    /\ suites = <<>>
    /\ calls = 0
    /\ f = <<>>
    /\ svunit_f = <<>>
    /\ artifacts = <<>>
    /\ writes = <<>>
    /\ generated_test_suites = <<>>
    /\ suite_idx = 0
    /\ simulator = NoSimulator
    /\ launched = <<>>
    /\ run_result = "none"
    /\ exit_code = -1
    /\ warnings = <<>>
    /\ codegen_calls = <<>>
    /\ sim_args = <<>>
    /\ sim_cmd = <<>>
    /\ manifest_read = <<>>
    /\ artifacts_read = <<>>
    /\ other = NoRun
    /\ overlapped = FALSE
    /\ pc = "main"

inputVars == <<fs, directories, tests, scanReverse, argVars>>

\* main.py 81-91
MainDiscover ==
    /\ pc = "main"
    /\ calls' = calls + 1
    /\ found_tests' = discover
    /\ warnings' = warnings \o discover_warnings
    /\ IF found_tests' = <<>>
       THEN /\ exit_code' = 0
            /\ pc' = "done"
            /\ UNCHANGED suites
       ELSE /\ suites' = get_test_suites(found_tests')
            /\ pc' = "open"
            /\ UNCHANGED exit_code
    /\ UNCHANGED <<inputVars, genVars, simulator, launched, run_result,
                   codegen_calls, adapterVars, schedVars>>

\* main.py 97-112: open(svunit_f_path, 'w') and the lines of the libraries
OpenManifest ==
    /\ pc = "open"
    /\ writes' = Append(writes, svunit_f_path)
    /\ svunit_f' = open_w(svunit_f)
    /\ f' = BaseLines \o (IF uvm THEN UvmLines ELSE <<>>)
                \o (IF enable_experimental THEN ExperimentalLines ELSE <<>>)
    /\ suite_idx' = 1
    /\ pc' = "suites"
    /\ UNCHANGED <<inputVars, found_tests, suites, calls, artifacts,
                   generated_test_suites, simVars, warnings, codegen_calls,
                   adapterVars, schedVars>>

\* main.py 115-141: one turn of the loop over suites.items()
GenerateSuite ==
    /\ pc = "suites"
    /\ suite_idx <= Len(suites)
    /\ LET suite == suites[suite_idx]
           path == ts_path(suite.dir)
       IN  /\ artifacts' = WithFile(artifacts, path, create_testsuite(path, suite.tests))
           /\ warnings' = warnings \o create_testsuite_warnings(suite.tests)
           /\ codegen_calls' = Append(codegen_calls,
                  [fn |-> "create_testsuite", output_file |-> path, input |-> suite.tests,
                   text |-> create_testsuite(path, suite.tests)])
           /\ writes' = Append(writes, path)
           /\ generated_test_suites' = Append(generated_test_suites, path)
           /\ f' = f \o SuiteLines(suite)
    /\ suite_idx' = suite_idx + 1
    /\ UNCHANGED <<inputVars, found_tests, suites, calls, svunit_f, simVars, pc,
                   adapterVars, schedVars>>

\* A runner generated as soon as one suite is, whatever is left of the loop.
GenerateRunner_early ==
    /\ pc = "suites"
    /\ suite_idx > 1
    /\ artifacts' = WithFile(artifacts, tr_path,
                             create_testrunner(tr_path, generated_test_suites))
    /\ codegen_calls' = Append(codegen_calls,
           [fn |-> "create_testrunner", output_file |-> tr_path,
            input |-> generated_test_suites,
            text |-> create_testrunner(tr_path, generated_test_suites)])
    /\ writes' = Append(writes, tr_path)
    /\ f' = f \o Str(tr_path) \o NL
    /\ svunit_f' = write_back(svunit_f, f')
    /\ pc' = "select"
    /\ UNCHANGED <<inputVars, found_tests, suites, calls, generated_test_suites,
                   suite_idx, simVars, warnings, adapterVars, schedVars>>

\* main.py 143-147: the runner, its line, and the end of the with block
GenerateRunner ==
    /\ pc = "suites"
    /\ suite_idx > Len(suites)
    /\ artifacts' = WithFile(artifacts, tr_path,
                             create_testrunner(tr_path, generated_test_suites))
    /\ codegen_calls' = Append(codegen_calls,
           [fn |-> "create_testrunner", output_file |-> tr_path,
            input |-> generated_test_suites,
            text |-> create_testrunner(tr_path, generated_test_suites)])
    /\ writes' = Append(writes, tr_path)
    /\ f' = f \o Str(tr_path) \o NL
    /\ svunit_f' = write_back(svunit_f, f')
    /\ pc' = "select"
    /\ UNCHANGED <<inputVars, found_tests, suites, calls, generated_test_suites,
                   suite_idx, simVars, warnings, adapterVars, schedVars>>

\* main.py 151-155
GetSimulator ==
    /\ pc = "select"
    /\ simulator_arg # ""
    /\ simulator' = get_simulator(simulator_arg)
    /\ IF simulator' = NoSimulator
       THEN exit_code' = 1 /\ pc' = "done"
       ELSE pc' = "run" /\ UNCHANGED exit_code
    /\ UNCHANGED <<inputVars, found_tests, suites, calls, genVars, launched, run_result,
                   warnings, codegen_calls, adapterVars, schedVars>>

\* main.py 156-160
DetectSimulator ==
    /\ pc = "select"
    /\ simulator_arg = ""
    /\ simulator' = detect_simulator.simulator
    /\ launched' = launched \o detect_simulator.probes
    /\ IF simulator' = NoSimulator
       THEN exit_code' = 1 /\ pc' = "done"
       ELSE pc' = "run" /\ UNCHANGED exit_code
    /\ UNCHANGED <<inputVars, found_tests, suites, calls, genVars, run_result,
                   warnings, codegen_calls, adapterVars, schedVars>>

ExitStatuses == 0..MaxExit

\* simulator.run() on an adapter whose sim_args is args: Verilator's refusal,
\* Xsim's rewrite of the manifest, ModelSim's mode flag, and the command
\* handed to the shell.
SimulatorRun(args) ==
    IF VerilatorRefuses(simulator)
    THEN /\ run_result' = "False"
         /\ sim_args' = args
         /\ UNCHANGED <<launched, svunit_f, sim_cmd, manifest_read, artifacts_read>>
    ELSE \E st \in [1..NumProcs(CommandChain(simulator)) -> ExitStatuses] :
            LET r == run_command(CommandChain(simulator), st)
            IN  /\ launched' = launched \o r.procs
                /\ run_result' = IF r.ok THEN "True" ELSE "False"
                /\ svunit_f' = IF simulator.kind = "Xsim" THEN XsimRewrite(svunit_f)
                               ELSE svunit_f
                /\ sim_args' = IF simulator.kind = "ModelSim"
                               THEN modelsim_sim_args(args) ELSE args
                /\ sim_cmd' = Flatten(sim_args')
                /\ manifest_read' = svunit_f'
                /\ artifacts_read' = artifacts

\* main.py 164-182: set_options, simulator.run(), the exit code
RunSimulator ==
    /\ pc = "run"
    /\ SimulatorRun(r_arg)
    /\ exit_code' = IF run_result' = "True" THEN 0 ELSE 1
    /\ pc' = "done"
    /\ UNCHANGED <<inputVars, found_tests, suites, calls, f, artifacts, writes,
                   generated_test_suites, suite_idx, simulator, warnings,
                   codegen_calls, schedVars>>

Next ==
    \/ MainDiscover
    \/ OpenManifest
    \/ GenerateSuite
    \/ GenerateRunner
    \/ GetSimulator
    \/ DetectSimulator
    \/ RunSimulator

Spec == Init /\ [][Next]_vars

(***************************************************************************)
(* Two invocations of main() on one machine, with the same output          *)
(* directory.  Each has its own arguments and its own memory; the file     *)
(* tree and the output directory are the same for both.  The processor     *)
(* runs one of them at a time and may suspend it between any two steps.    *)
(***************************************************************************)
\* The tree both invocations see.
SharedTree ==
    [p \in {Join(Cwd, F_ut), Join(DirA, G_ut)} |-> ModuleText(DeclaredBy(p))]

\* What an invocation holds in its own memory.
OwnState ==
    [ pc |-> pc, directories |-> directories, tests |-> tests,
      simulator_arg |-> simulator_arg, uvm |-> uvm,
      enable_experimental |-> enable_experimental, vhdlfile |-> vhdlfile,
      r_arg |-> r_arg, present |-> present, found_tests |-> found_tests, suites |-> suites,
      calls |-> calls, f |-> f, writes |-> writes,
      generated_test_suites |-> generated_test_suites, suite_idx |-> suite_idx,
      simulator |-> simulator, launched |-> launched, run_result |-> run_result,
      exit_code |-> exit_code, warnings |-> warnings, codegen_calls |-> codegen_calls,
      sim_args |-> sim_args, sim_cmd |-> sim_cmd, manifest_read |-> manifest_read,
      artifacts_read |-> artifacts_read ]

\* The arguments of the invocations: where to search, and the backend.
RunArguments == {<<>>, <<DirA>>, <<MissingDir>>} \X {"", "modelsim"}

Fresh(args) ==
    [ pc |-> "main", directories |-> args[1], tests |-> <<>>,
      simulator_arg |-> args[2], uvm |-> FALSE, enable_experimental |-> FALSE,
      vhdlfile |-> FALSE, r_arg |-> <<>>, present |-> {"xsim"}, found_tests |-> <<>>, suites |-> <<>>,
      calls |-> 0, f |-> <<>>, writes |-> <<>>, generated_test_suites |-> <<>>,
      suite_idx |-> 0, simulator |-> NoSimulator, launched |-> <<>>,
      run_result |-> "none", exit_code |-> -1, warnings |-> <<>>,
      codegen_calls |-> <<>>, sim_args |-> <<>>, sim_cmd |-> <<>>,
      manifest_read |-> <<>>, artifacts_read |-> <<>> ]

InitTwoRuns ==
    /\ fs = SharedTree
    /\ scanReverse = FALSE
    /\ svunit_f = <<>>
    /\ artifacts = <<>>
    /\ overlapped = FALSE
    /\ \E mine, theirs \in RunArguments :
          /\ directories = mine[1]
          /\ simulator_arg = mine[2]
          /\ other = Fresh(theirs)
    /\ tests = <<>> /\ uvm = FALSE /\ enable_experimental = FALSE /\ vhdlfile = FALSE
    /\ r_arg = <<>>
    /\ present = {"xsim"}
    /\ found_tests = <<>> /\ suites = <<>> /\ calls = 0
    /\ f = <<>> /\ writes = <<>> /\ generated_test_suites = <<>> /\ suite_idx = 0
    /\ simulator = NoSimulator /\ launched = <<>> /\ run_result = "none" /\ exit_code = -1
    /\ warnings = <<>> /\ codegen_calls = <<>>
    /\ sim_args = <<>> /\ sim_cmd = <<>> /\ manifest_read = <<>> /\ artifacts_read = <<>>
    /\ pc = "main"

\* The processor turns from one invocation to the other.
Switch ==
    /\ other # NoRun
    /\ other.pc # "done"
    /\ other' = OwnState
    /\ overlapped' = (overlapped \/ pc \notin {"main", "done"})
    /\ pc' = other.pc
    /\ directories' = other.directories
    /\ tests' = other.tests
    /\ simulator_arg' = other.simulator_arg
    /\ uvm' = other.uvm
    /\ enable_experimental' = other.enable_experimental
    /\ vhdlfile' = other.vhdlfile
    /\ r_arg' = other.r_arg
    /\ present' = other.present
    /\ found_tests' = other.found_tests
    /\ suites' = other.suites
    /\ calls' = other.calls
    /\ f' = other.f
    /\ writes' = other.writes
    /\ generated_test_suites' = other.generated_test_suites
    /\ suite_idx' = other.suite_idx
    /\ simulator' = other.simulator
    /\ launched' = other.launched
    /\ run_result' = other.run_result
    /\ exit_code' = other.exit_code
    /\ warnings' = other.warnings
    /\ codegen_calls' = other.codegen_calls
    /\ sim_args' = other.sim_args
    /\ sim_cmd' = other.sim_cmd
    /\ manifest_read' = other.manifest_read
    /\ artifacts_read' = other.artifacts_read
    /\ UNCHANGED <<fs, scanReverse, svunit_f, artifacts>>

NextTwoRuns == Next \/ Switch

SpecTwoRuns == InitTwoRuns /\ [][NextTwoRuns]_vars

\* The number of test files over all suites.
RECURSIVE TotalTests(_)
TotalTests(ss) == IF ss = <<>> THEN 0 ELSE Len(Head(ss).tests) + TotalTests(Tail(ss))

\* The files of the searched tree that carry the unit-test suffix.
C1_TreeFiles ==
    {p \in DOMAIN fs : IsPrefix(SearchDirs[1], Parent(p)) /\ EndsWith(Name(p), UnitTestSv)}

C1_Case == tests = <<>> /\ Len(SearchDirs) = 1 /\ pc = "grouped"

(***************************************************************************)
(* C1: with no explicit test names, discovery over one directory tree      *)
(* that holds N files named *_unit_test.sv in D distinct parent            *)
(* directories yields exactly those N files, grouped into exactly D        *)
(* suites, each holding only files whose parent is the suite's key.        *)
(***************************************************************************)
C1_DiscoveryCounts ==
    C1_Case =>
        LET N == Cardinality(C1_TreeFiles)
            D == Cardinality({Parent(p) : p \in C1_TreeFiles})
        IN  /\ Len(found_tests) = N
            /\ {found_tests[i] : i \in 1..N} = C1_TreeFiles
            /\ Len(suites) = D
            /\ Cardinality({suites[k].dir : k \in 1..D}) = D
            /\ TotalTests(suites) = N
            /\ \A k \in 1..D : \A j \in 1..Len(suites[k].tests) :
                   /\ suites[k].tests[j] \in C1_TreeFiles
                   /\ Parent(suites[k].tests[j]) = suites[k].dir

C1_Witness ==
    /\ C1_Case
    /\ Cardinality(C1_TreeFiles) = 3
    /\ Len(suites) = 2
    /\ Len(suites[1].tests) = 2

(***************************************************************************)
(* The Xsim adapter run, and run again, on an output directory whose       *)
(* manifest holds any text.                                                *)
(***************************************************************************)
ManifestPieces ==
    { Incdir, XsimInclude, <<"+">>, <<"i", "n", "c", "d", "i", "r", "+">>,
      <<"+", "i", "n", "c">>, <<"d", "i", "r", "+">> }

ManifestTexts == {Flatten(ps) : ps \in SeqsUpTo(ManifestPieces, MaxPieces)}

XsimRuns == Cardinality({i \in 1..Len(launched) : launched[i].prog = "xvlog"})

InitRewrite ==
    /\ svunit_f \in ManifestTexts
    /\ simulator = Xsim
    /\ pc = "adapter"
    /\ fs = <<>> /\ directories = <<>> /\ tests = <<>> /\ scanReverse = FALSE
    /\ found_tests = <<>> /\ suites = <<>> /\ calls = 0
    /\ simulator_arg = "xsim" /\ uvm = FALSE /\ enable_experimental = FALSE
    /\ vhdlfile = FALSE /\ r_arg = <<>> /\ present = {}
    /\ f = <<>> /\ artifacts = <<>> /\ writes = <<>>
    /\ generated_test_suites = <<>> /\ suite_idx = 0
    /\ launched = <<>> /\ run_result = "none" /\ exit_code = -1
    /\ warnings = <<>> /\ codegen_calls = <<>>
    /\ sim_args = <<>> /\ sim_cmd = <<>> /\ manifest_read = <<>> /\ artifacts_read = <<>>
    /\ other = NoRun /\ overlapped = FALSE

\* simulators.py 217-269: Xsim.run() called on the adapter object
XsimRun ==
    /\ pc = "adapter"
    /\ XsimRuns < MaxRuns
    /\ SimulatorRun(sim_args)
    /\ UNCHANGED <<inputVars, found_tests, suites, calls, f, artifacts, writes,
                   generated_test_suites, suite_idx, simulator, exit_code, pc,
                   warnings, codegen_calls, schedVars>>

SpecRewrite == InitRewrite /\ [][XsimRun]_vars

(***************************************************************************)
(* The ModelSim adapter run, and run again, with any -r values.            *)
(***************************************************************************)
\* The values one -r option may carry: a flag, or several in one string.
SimArgValues ==
    { <<"-c">>, <<"-gui">>, <<"-i">>, <<"-x">>, <<"-gui", "-x">>, <<"-x", "-c">> }

ModelSimRuns == Cardinality({i \in 1..Len(launched) : launched[i].prog = "vlib"})

InitModelSim ==
    /\ r_arg \in SeqsUpTo(SimArgValues, MaxSimArgs)
    /\ sim_args = r_arg
    /\ simulator \in {ModelSim, [ModelSim EXCEPT !.name = "riviera"]}
    /\ pc = "adapter"
    /\ fs = <<>> /\ directories = <<>> /\ tests = <<>> /\ scanReverse = FALSE
    /\ found_tests = <<>> /\ suites = <<>> /\ calls = 0
    /\ simulator_arg = simulator.name /\ uvm = FALSE /\ enable_experimental = FALSE
    /\ vhdlfile = FALSE /\ present = {}
    /\ f = <<>> /\ svunit_f = <<>> /\ artifacts = <<>> /\ writes = <<>>
    /\ generated_test_suites = <<>> /\ suite_idx = 0
    /\ launched = <<>> /\ run_result = "none" /\ exit_code = -1
    /\ warnings = <<>> /\ codegen_calls = <<>>
    /\ sim_cmd = <<>> /\ manifest_read = <<>> /\ artifacts_read = <<>>
    /\ other = NoRun /\ overlapped = FALSE

\* simulators.py 56-94: ModelSim.run() called on the adapter object
ModelSimRun ==
    /\ pc = "adapter"
    /\ ModelSimRuns < MaxRuns
    /\ SimulatorRun(sim_args)
    /\ UNCHANGED <<inputVars, found_tests, suites, calls, f, artifacts, writes,
                   generated_test_suites, suite_idx, simulator, exit_code, pc,
                   warnings, codegen_calls, schedVars>>

SpecModelSim == InitModelSim /\ [][ModelSimRun]_vars

(***************************************************************************)
(* Calls on one SvUnitCodeGen object, over test files of any text.         *)
(***************************************************************************)
P1 == Join(DirA, F_ut)
P2 == Join(DirA, G_ut)

W_ut == <<"w", "_unit_test">>
Decl(id) == <<"module", " ">> \o id \o <<";">>
FakeDecl == Decl(<<"k", "_unit_test">>)

LineComment(text) == <<"/", "/">> \o text \o NL
BlockComment(text) == <<"/", "*">> \o text \o <<"*", "/">>

\* Comments of both styles: empty, holding a declaration, holding the
\* other style's delimiter.
Comments ==
    { LineComment(<<" ">>), LineComment(<<" ">> \o FakeDecl), LineComment(<<" ", "/", "*">>),
      BlockComment(<<" ">>), BlockComment(NL \o FakeDecl \o NL),
      BlockComment(<<" ", "/", "/", " ">>) }

\* Test files that declare w_unit_test, the second with a comment of its own.
BaseTexts == { Decl(W_ut) \o NL, Decl(W_ut) \o NL \o BlockComment(<<"x">>) \o NL }

\* The text with the comment put in after its first i symbols.
Insert(text, i, comment) == SubSeq(text, 1, i) \o comment \o SubSeq(text, i + 1, Len(text))

\* The first i symbols, or the rest, hold the whole declaration of id.
OutsideDecl(text, i, id) ==
    \/ Find(SubSeq(text, 1, i), Decl(id), 1) # 0
    \/ Find(SubSeq(text, i + 1, Len(text)), Decl(id), 1) # 0

CommentedTexts ==
    { Insert(b, i, c) : b \in BaseTexts, i \in {0, Len(Decl(W_ut)), Len(Decl(W_ut)) + 1},
                        c \in Comments }

\* Module names that hold the suffix more than once, or not at the end.
OddTexts ==
    { ModuleText(<<"f", "_unit_test", "_unit_test">>), ModuleText(<<"f", "_unit_test", "x">>),
      <<"static", " ">> \o ModuleText(<<"f", "_unit_test">>), <<>> }

SuiteNames ==
    { <<".", "a", "_testsuite", ".", "s", "v">>,
      <<".", "a", "_testsuite", "_", "b", "_testsuite", ".", "s", "v">> }

OutFiles == {Join(OutDir, n) : n \in SuiteNames}

\* The lists that hold the elements of q in any order.
Orderings(q) ==
    { [k \in 1..Len(q) |-> q[pi[k]]] :
        pi \in {g \in [1..Len(q) -> 1..Len(q)] : \A i, j \in 1..Len(q) : g[i] = g[j] => i = j} }

InitCodegen ==
    /\ fs \in { [p \in {P1, P2} |-> IF p = P1 THEN t1 ELSE t2] :
                  t1 \in BaseTexts \cup OddTexts, t2 \in BaseTexts \cup CommentedTexts }
    /\ directories = <<>> /\ tests = <<>> /\ scanReverse = FALSE
    /\ found_tests = <<>> /\ suites = <<>> /\ calls = 0
    /\ warnings = <<>>
    /\ pc = "codegen"
    /\ IdleMain

codegenUnchanged ==
    <<directories, tests, scanReverse, found_tests, suites, calls, argVars, f, svunit_f,
      writes, generated_test_suites, suite_idx, simVars, adapterVars, schedVars, pc>>

\* codegen.py 9-31
ParseCall ==
    /\ pc = "codegen"
    /\ Len(codegen_calls) < MaxCodegenCalls
    /\ \E file_path \in DOMAIN fs :
          codegen_calls' = Append(codegen_calls,
              [fn |-> "_parse_unit_test_name", output_file |-> <<>>,
               input |-> <<file_path>>, text |-> parse_unit_test_name(file_path)])
    /\ UNCHANGED <<fs, artifacts, warnings, codegenUnchanged>>

\* codegen.py 33-98
CreateTestsuiteCall ==
    /\ pc = "codegen"
    /\ Len(codegen_calls) < MaxCodegenCalls
    /\ \E output_file \in OutFiles, unit_tests \in Orderings(<<P1, P2>>) :
          /\ artifacts' = WithFile(artifacts, output_file,
                                   create_testsuite(output_file, unit_tests))
          /\ warnings' = warnings \o create_testsuite_warnings(unit_tests)
          /\ codegen_calls' = Append(codegen_calls,
                 [fn |-> "create_testsuite", output_file |-> output_file,
                  input |-> unit_tests, text |-> create_testsuite(output_file, unit_tests)])
    /\ UNCHANGED <<fs, codegenUnchanged>>

\* codegen.py 100-182
CreateTestrunnerCall ==
    /\ pc = "codegen"
    /\ Len(codegen_calls) < MaxCodegenCalls
    /\ \E test_suites \in {q \in SeqsUpTo(OutFiles, 2) : Len(q) = 2 /\ q[1] # q[2]} :
          /\ artifacts' = WithFile(artifacts, tr_path, create_testrunner(tr_path, test_suites))
          /\ codegen_calls' = Append(codegen_calls,
                 [fn |-> "create_testrunner", output_file |-> tr_path,
                  input |-> test_suites, text |-> create_testrunner(tr_path, test_suites)])
    /\ UNCHANGED <<fs, warnings, codegenUnchanged>>

NextCodegen == ParseCall \/ CreateTestsuiteCall \/ CreateTestrunnerCall

SpecCodegen == InitCodegen /\ [][NextCodegen]_vars

(***************************************************************************)
(* Reading a manifest back as lines.                                       *)
(***************************************************************************)
\* The lines of a text, each without its line break.
Lines(text) ==
    LET breaks == {i \in 1..Len(text) : text[i] = "\n"}
        ends == breaks \cup (IF text # <<>> /\ text[Len(text)] # "\n"
                              THEN {Len(text) + 1} ELSE {})
        EndOf(k) == CHOOSE i \in ends : Cardinality({j \in ends : j < i}) = k - 1
        StartOf(k) == IF k = 1 THEN 1 ELSE EndOf(k - 1) + 1
    IN  [k \in 1..Cardinality(ends) |-> SubSeq(text, StartOf(k), EndOf(k) - 1)]

Places(L, line) == {i \in 1..Len(L) : L[i] = line}

LastPlace(L, line) == CHOOSE i \in Places(L, line) : \A j \in Places(L, line) : j <= i

\* The run wrote a manifest and closed it.
ManifestClosed == pc \in {"select", "run", "done"} /\ writes # <<>>

DirectiveTokens == {Incdir, XsimInclude}

DirectiveOf(dir) == {tok \o Str(dir) : tok \in DirectiveTokens}

\* The order of the lines in a closed manifest.
C2_ManifestOrder ==
    ManifestClosed =>
        LET L == Lines(svunit_f)
            runner == writes[Len(writes)]
        IN  /\ artifacts[runner].class_name = <<"testrunner">>
            /\ Len(L) > 0 /\ L[Len(L)] = Str(runner)
            /\ svunit_f[Len(svunit_f)] = "\n"
            /\ Len(generated_test_suites) = Len(suites)
            /\ \A k \in 1..Len(suites) :
                  LET art == Str(generated_test_suites[k])
                  IN  /\ Places(L, art) # {}
                      /\ \A j \in 1..Len(suites[k].tests) :
                            LET test == Str(suites[k].tests[j])
                            IN  /\ Places(L, test) # {}
                                /\ \A i \in Places(L, test) : i < LastPlace(L, art)

\* A rewrite of the file on disk keeps every line in place, changing at
\* most the spelling of a directive.
C2_SameLines(old, new) ==
    LET before == Lines(old)
        after == Lines(new)
    IN  /\ Len(after) = Len(before)
        /\ \A i \in 1..Len(before) :
              \/ after[i] = before[i]
              \/ \E t1, t2 \in DirectiveTokens :
                    /\ StartsWith(before[i], t1) /\ StartsWith(after[i], t2)
                    /\ SubSeq(after[i], Len(t2) + 1, Len(after[i]))
                         = SubSeq(before[i], Len(t1) + 1, Len(before[i]))

\* One step of the run, seen from the manifest.
C2_AppendOnlyStep ==
    /\ IsPrefix(f, f')
    /\ svunit_f' = svunit_f \/ svunit_f' = f' \/ C2_SameLines(svunit_f, svunit_f')

(***************************************************************************)
(* C2: in the manifest one run writes, whatever the number of suites and   *)
(* the UVM and experimental flags, each suite's artifact line comes after  *)
(* the lines of all the test files the suite aggregates, the runner's      *)
(* path is the last line, and lines are only appended: what has been       *)
(* written is never reordered or taken back.                               *)
(***************************************************************************)
C2_ManifestAppendOnly == []C2_ManifestOrder /\ [][C2_AppendOnlyStep]_vars

C2_Witness ==
    /\ pc = "done"
    /\ ManifestClosed
    /\ Len(suites) = 2
    /\ uvm /\ enable_experimental
    /\ simulator.kind = "Xsim"
    /\ run_result = "True"

(***************************************************************************)
(* C3: in the manifest one run writes, the include directive of each       *)
(* suite's directory comes before the lines of that suite's test files     *)
(* and before its artifact line, and each library's include directive      *)
(* comes before the library's package file.                                *)
(***************************************************************************)
C3_LibraryPairs ==
    { << <<"/svunit_base/junit-xml">>, <<"/svunit_base/junit-xml/junit_xml.sv">> >>,
      << <<"/svunit_base">>, <<"/svunit_base/svunit_pkg.sv">> >>,
      << <<"/svunit_base/uvm-mock">>, <<"/svunit_base/uvm-mock/svunit_uvm_mock_pkg.sv">> >>,
      << <<"/src/experimental/sv">>, <<"/src/experimental/sv/svunit.sv">> >> }

C3_DirectiveFirst ==
    ManifestClosed =>
        LET L == Lines(svunit_f)
            DirPlaces(d) == {i \in 1..Len(L) : L[i] \in DirectiveOf(d)}
            Before(d, line) ==
                \A i \in Places(L, line) : \E j \in DirPlaces(d) : j < i
        IN  /\ \A k \in 1..Len(suites) :
                  /\ Before(suites[k].dir, Str(generated_test_suites[k]))
                  /\ \A j \in 1..Len(suites[k].tests) :
                        Before(suites[k].dir, Str(suites[k].tests[j]))
            /\ \A pair \in C3_LibraryPairs :
                  \A i \in Places(L, Install \o pair[2]) :
                      \E j \in 1..(i - 1) :
                          \E tok \in DirectiveTokens : L[j] = tok \o Install \o pair[1]

(***************************************************************************)
(* C4: every suite artifact create_testsuite writes during a run declares  *)
(* at least one test instance, also when no test file of the directory     *)
(* yields a module identifier.                                             *)
(***************************************************************************)
C4_NoEmptySuite ==
    \A k \in 1..Len(generated_test_suites) :
        Len(artifacts[generated_test_suites[k]].instances) >= 1

\* The processes started by the adapter's run(), as opposed to detection probes.
StartedByRun == {i \in 1..Len(launched) : launched[i].by = "run"}

(***************************************************************************)
(* C5: for every adapter, run() returns true only if every process of the  *)
(* chain it started (compile, elaborate, simulate) exited with status 0.   *)
(***************************************************************************)
C5_TrueOnlyIfAllZero ==
    run_result = "True" => \A i \in StartedByRun : launched[i].status = 0

\* Verilator has been asked to run with an option it does not support.
C6_Case ==
    /\ run_result # "none"
    /\ simulator.executable = "verilator"
    /\ uvm \/ vhdlfile

(***************************************************************************)
(* C6: Verilator run with the UVM toggle or with a VHDL filelist returns   *)
(* false without having started any process, and main exits with 1.        *)
(***************************************************************************)
C6_VerilatorFailsFast ==
    C6_Case => /\ run_result = "False"
               /\ StartedByRun = {}
               /\ pc = "done" /\ exit_code = 1

C6_Witness == C6_Case /\ uvm /\ ~vhdlfile /\ simulator_arg = "" /\ pc = "done"

\* The run has looked the name up and given up.
C7_Aborted == pc = "done" /\ simulator_arg = "bogus" /\ found_tests # <<>>

(***************************************************************************)
(* C7: a run that names an unrecognized backend ends with exit code 1,     *)
(* has attempted no detection and started no process, and has written no   *)
(* file at all when it aborts.                                             *)
(***************************************************************************)
C7_UnknownNameWritesNothing ==
    C7_Aborted =>
        /\ exit_code = 1
        /\ launched = <<>>
        /\ writes = <<>>

\* The probing order the documentation gives, and the adapter of each launcher.
C8_Priority == <<"xrun", "irun", "qrun", "vsim", "vcs", "dsim", "verilator", "xsim">>

C8_Class ==
    [l \in Launchers |->
        CASE l = "xrun" -> "Irun" [] l = "irun" -> "Irun" [] l = "qrun" -> "Qrun"
          [] l = "vsim" -> "ModelSim" [] l = "vcs" -> "Vcs" [] l = "dsim" -> "Dsim"
          [] l = "verilator" -> "Verilator" [] l = "xsim" -> "Xsim"]

\* The run reached automatic detection.
C8_Detected == simulator_arg = "" /\ found_tests # <<>> /\ pc \in {"run", "done"}

(***************************************************************************)
(* C8: detect_simulator returns the adapter of the first launcher present  *)
(* on PATH in the order xrun, irun, qrun, vsim, vcs, dsim, verilator,      *)
(* xsim (Verilator when only verilator is present); with none present it   *)
(* returns no adapter and main exits with 1 having invoked no backend.     *)
(***************************************************************************)
C8_FirstPresentWins ==
    C8_Detected =>
        IF present \cap Launchers = {}
        THEN /\ simulator = NoSimulator
             /\ pc = "done" /\ exit_code = 1
             /\ StartedByRun = {}
        ELSE LET first == CHOOSE i \in 1..Len(C8_Priority) :
                              /\ C8_Priority[i] \in present
                              /\ \A j \in 1..(i - 1) : C8_Priority[j] \notin present
             IN  /\ simulator.executable = C8_Priority[first]
                 /\ simulator.name \in {C8_Priority[first], "modelsim"}
                 /\ simulator.kind = C8_Class[C8_Priority[first]]

C8_Witness ==
    /\ C8_Detected
    /\ present = {"verilator", "xsim"}
    /\ simulator = Verilator
    /\ pc = "done"

\* No adapter can be obtained from the command line and PATH.
C9_Unresolvable ==
    \/ simulator_arg = "bogus"
    \/ simulator_arg = "" /\ present \cap Launchers = {}

(***************************************************************************)
(* C9: main returns 1 in every run in which the backend cannot be          *)
(* resolved (unrecognized name, or no launcher found) or in which run()    *)
(* returns false, and 0 only on success, whatever the discovered test set  *)
(* (the empty one included).                                               *)
(***************************************************************************)
C9_ExitCode ==
    pc = "done" =>
        /\ exit_code \in {0, 1}
        /\ (C9_Unresolvable \/ run_result = "False") => exit_code = 1
        /\ exit_code = 0 => run_result = "True"

(***************************************************************************)
(* C10: Xsim's rewrite of the manifest (every "+incdir+" becomes           *)
(* "--include ") is idempotent: once the adapter has run, running it       *)
(* again leaves the manifest exactly as it is, whatever the text was.      *)
(***************************************************************************)
C10_RewriteIdempotent == [][XsimRuns >= 1 => svunit_f' = svunit_f]_vars

C10_Witness ==
    /\ XsimRuns = 2
    /\ \E i \in 1..(Len(svunit_f) - Len(XsimInclude) + 1) :
          SubSeq(svunit_f, i, i + Len(XsimInclude) - 1) = XsimInclude
    /\ \E i \in 1..Len(svunit_f) : svunit_f[i] = "+"

\* The calls that generated a file, and the calls that read one.
GenerationCalls ==
    {i \in 1..Len(codegen_calls) :
        codegen_calls[i].fn \in {"create_testsuite", "create_testrunner"}}

ParseCalls == {i \in 1..Len(codegen_calls) : codegen_calls[i].fn = "_parse_unit_test_name"}

\* The pairs of class name and instance name a generated text declares.
Bindings(text) == {<<text.classes[k], text.instances[k]>> : k \in 1..Len(text.classes)}

(***************************************************************************)
(* C11: create_testsuite and create_testrunner are functions of their      *)
(* output name and ordered input: two calls with the same name and the     *)
(* same ordered input produce the same text, and if the input of one is a  *)
(* reordering of the other's, the texts differ only in the order of the    *)
(* declarations: the same module name and instance name, the same pairs    *)
(* of class name and instance name, each at the place of its input.        *)
(***************************************************************************)
C11_GenerationPure ==
    \A i, j \in GenerationCalls :
        LET a == codegen_calls[i]
            b == codegen_calls[j]
        IN  (a.fn = b.fn /\ a.output_file = b.output_file /\ b.input \in Orderings(a.input)) =>
                /\ a.input = b.input => a.text = b.text
                /\ b.text.class_name = a.text.class_name
                /\ b.text.instance_name = a.text.instance_name
                /\ Len(a.text.instances) = Len(a.text.classes)
                /\ Len(b.text.classes) = Len(a.text.classes)
                /\ Bindings(b.text) = Bindings(a.text)
                /\ Len(a.text.classes) = Len(a.input) =>
                      \A k, m \in 1..Len(a.input) :
                          b.input[k] = a.input[m] =>
                              /\ b.text.classes[k] = a.text.classes[m]
                              /\ b.text.instances[k] = a.text.instances[m]

C11_Witness ==
    \E i, j \in GenerationCalls :
        LET a == codegen_calls[i]
            b == codegen_calls[j]
        IN  /\ i < j
            /\ a.fn = "create_testsuite" /\ b.fn = "create_testsuite"
            /\ a.output_file = b.output_file
            /\ a.input # b.input /\ b.input \in Orderings(a.input)
            /\ Len(a.text.classes) = 2
            /\ a.text.classes[1] # a.text.classes[2]

(***************************************************************************)
(* C12: in every generated suite the instance name of a unit test is its   *)
(* module name with only the trailing "_unit_test" replaced by "_ut", and  *)
(* in every generated runner the instance name of a suite is its module    *)
(* name with only the trailing "_testsuite" replaced by "_ts".             *)
(***************************************************************************)
C12_TrailingSuffixOnly ==
    \A i \in GenerationCalls :
        LET text == codegen_calls[i].text
            suite == codegen_calls[i].fn = "create_testsuite"
            suffix == IF suite THEN "_unit_test" ELSE "_testsuite"
            short == IF suite THEN "_ut" ELSE "_ts"
        IN  \A k \in 1..Len(text.classes) :
                LET id == text.classes[k]
                IN  EndsWith(id, <<suffix>>) =>
                        text.instances[k] = SubSeq(id, 1, Len(id) - 1) \o <<short>>

(***************************************************************************)
(* C13: _parse_unit_test_name finds the same module name in a file and in  *)
(* the file with a comment of either style put in anywhere outside the     *)
(* declaration, whatever the comment's text.                               *)
(***************************************************************************)
C13_CommentInvariant ==
    \A i, j \in ParseCalls :
        LET base == fs[codegen_calls[i].input[1]]
            commented == fs[codegen_calls[j].input[1]]
            found == codegen_calls[i].text
        IN  ( /\ found # <<>>
              /\ \E c \in Comments, n \in 0..Len(base) :
                    OutsideDecl(base, n, found) /\ commented = Insert(base, n, c) )
            => codegen_calls[j].text = found

\* The manifest as the running invocation wrote it, or as its Xsim adapter
\* left it.
OwnManifest(text) == text \in {f, XsimRewrite(f)}

(***************************************************************************)
(* C14: when an invocation that was not interleaved with another one has   *)
(* finished, whatever its exit code and the tests it found, the manifest   *)
(* in the output directory is the one this invocation wrote: nothing of    *)
(* an earlier invocation's manifest is left.                               *)
(***************************************************************************)
C14_ManifestFresh ==
    (pc = "done" /\ ~overlapped) => OwnManifest(svunit_f)

\* The backend of the running invocation has been started.
BackendRan == run_result # "none" /\ StartedByRun # {}

(***************************************************************************)
(* C16: two invocations with the same output directory.  If neither was    *)
(* suspended between its first and its last step, the manifest and the     *)
(* generated files a backend was started on are the ones its own           *)
(* invocation wrote; if they interleave, a backend can be started on the   *)
(* manifest the other invocation wrote (the witness).                      *)
(***************************************************************************)
C16_SerializedRunsConsistent ==
    (BackendRan /\ ~overlapped) =>
        /\ OwnManifest(manifest_read)
        /\ \A i \in GenerationCalls :
              /\ codegen_calls[i].output_file \in DOMAIN artifacts_read
              /\ artifacts_read[codegen_calls[i].output_file] = codegen_calls[i].text

C16_Witness ==
    /\ BackendRan
    /\ overlapped
    /\ other # NoRun
    /\ other.f # <<>>
    /\ ~OwnManifest(manifest_read)
    /\ manifest_read \in {other.f, XsimRewrite(other.f)}

\* The directories the run was told to search that do not exist, and the
\* test names it was given that are found under no directory.
MissingRoots == {d \in {SearchDirs[i] : i \in 1..Len(SearchDirs)} : ~Exists(d)}

UnmatchedNames ==
    {n \in {tests[i] : i \in 1..Len(tests)} :
        \A k \in 1..Len(SearchDirs) :
            LET d == SearchDirs[k]
            IN  \/ ~Exists(d)
                \/ /\ ~Exists(Join(d, n))
                   /\ EndsWith(n, UnitTestSv) \/ ~Exists(Join(d, n \o UnitTestSv))}

\* The command line and PATH give an adapter.
Resolvable ==
    IF simulator_arg # "" THEN get_simulator(simulator_arg) # NoSimulator
    ELSE present \cap Launchers # {}

(***************************************************************************)
(* C15: a run told to search a directory that does not exist, or for a     *)
(* test name that is found nowhere, has printed a warning about each of    *)
(* them when it ends, and has gone on with the tests that are left         *)
(* through generation and the manifest up to the start of the backend.     *)
(***************************************************************************)
C15_WarnedAndContinued ==
    pc = "done" =>
        /\ \A d \in MissingRoots :
              \E i \in 1..Len(warnings) :
                  warnings[i].kind = "Directory does not exist" /\ warnings[i].about = d
        /\ \A n \in UnmatchedNames :
              \E i \in 1..Len(warnings) :
                  warnings[i].kind = "Test not found" /\ warnings[i].about = n
        /\ (MissingRoots \cup UnmatchedNames # {} /\ Resolvable) =>
              /\ svunit_f_path \in {writes[i] : i \in 1..Len(writes)}
              /\ tr_path \in DOMAIN artifacts
              /\ run_result # "none"

(***************************************************************************)
(* C20: for every suite of a run, the module the runner instantiates is    *)
(* the module the suite's generated file declares, whatever the            *)
(* directory's name.                                                       *)
(***************************************************************************)
C20_RunnerNamesSuiteModules ==
    tr_path \in DOMAIN artifacts =>
        /\ Len(artifacts[tr_path].classes) = Len(generated_test_suites)
        /\ \A k \in 1..Len(generated_test_suites) :
              artifacts[tr_path].classes[k] = artifacts[generated_test_suites[k]].class_name

\* What the k-th directory holds for the i-th test name: the path of that
\* name, else the path of the name with the suffix added, else nothing.
C17_Match(k, i) ==
    LET d == SearchDirs[k]
        n == tests[i]
    IN  IF ~Exists(d) THEN {}
        ELSE IF Exists(Join(d, n)) THEN {Join(d, n)}
        ELSE IF ~EndsWith(n, UnitTestSv) /\ Exists(Join(d, n \o UnitTestSv))
             THEN {Join(d, n \o UnitTestSv)}
        ELSE {}

C17_Case == tests # <<>> /\ pc \in {"discovered", "grouped"}

(***************************************************************************)
(* C17: with explicit test names, discover() returns, for each existing    *)
(* directory and each name, the path of the name under the directory if    *)
(* it exists, else the path of the name with _unit_test.sv added if the    *)
(* name does not end in it and that path exists; a name found nowhere      *)
(* adds no entry, and nothing else is ever in the result.                  *)
(***************************************************************************)
C17_NamedTestsOnly ==
    C17_Case =>
        LET pairs == (1..Len(SearchDirs)) \X (1..Len(tests))
            hits == {pr \in pairs : C17_Match(pr[1], pr[2]) # {}}
        IN  /\ Len(found_tests) = Cardinality(hits)
            /\ {found_tests[j] : j \in 1..Len(found_tests)}
                   = UNION {C17_Match(pr[1], pr[2]) : pr \in pairs}

C17_Witness ==
    /\ C17_Case
    /\ \E k \in 1..Len(SearchDirs) : ~Exists(SearchDirs[k])
    /\ \E j \in 1..Len(found_tests) : \E i \in 1..Len(tests) :
          /\ Name(found_tests[j]) = tests[i] \o UnitTestSv
          /\ ~Exists(Join(Parent(found_tests[j]), tests[i]))
    /\ \E i \in 1..Len(tests) : \A k \in 1..Len(SearchDirs) : C17_Match(k, i) = {}

\* The per-suite generated files of the run, as the loop names them.
SuiteArtifacts == [k \in 1..Len(suites) |-> ts_path(suites[k].dir)]

\* The run has looked for a backend, or started one.
BackendTouched ==
    simulator # NoSimulator \/ launched # <<>> \/ run_result # "none" \/ pc = "run"

(***************************************************************************)
(* C18: the steps of one run are strictly ordered.  When the runner has    *)
(* been generated, every suite's file has been written and the runner was  *)
(* given the complete list of them; when a backend has been looked for or  *)
(* started, the runner has been written and the manifest is complete,      *)
(* ends with the runner's path and is closed (on disk as written).         *)
(***************************************************************************)
C18_StepsOrdered ==
    /\ tr_path \in DOMAIN artifacts =>
          /\ generated_test_suites = SuiteArtifacts
          /\ \A k \in 1..Len(suites) : SuiteArtifacts[k] \in DOMAIN artifacts
          /\ \E i \in GenerationCalls :
                /\ codegen_calls[i].fn = "create_testrunner"
                /\ codegen_calls[i].input = SuiteArtifacts
                /\ \A j \in GenerationCalls :
                      codegen_calls[j].fn = "create_testsuite" => j < i
          /\ Len(artifacts[tr_path].classes) = Len(suites)
    /\ BackendTouched =>
          /\ tr_path \in DOMAIN artifacts
          /\ EndsWith(f, Str(tr_path) \o NL)
          /\ OwnManifest(svunit_f)
    /\ BackendRan => OwnManifest(manifest_read)

C18_Witness ==
    /\ pc = "done"
    /\ BackendRan
    /\ Len(suites) = 2
    /\ simulator_arg = ""
    /\ run_result = "True"

\* The flags the caller gave with -r, and what makes a flag a mode flag.
CallerFlags == Flatten(r_arg)

IsModeFlag(flag) == flag \in {"-c", "-gui", "-i"}

(***************************************************************************)
(* C19: the ModelSim adapter puts its own -c into the simulation command   *)
(* only if the caller gave none of -c, -gui, -i with -r, be it alone or    *)
(* among several flags of one -r value: the command holds the caller's     *)
(* flags, followed by one -c if and only if none of them is a mode flag,   *)
(* however often run() is called.                                          *)
(***************************************************************************)
C19_DefaultModeOnlyIfNone ==
    (simulator.kind = "ModelSim" /\ BackendRan) =>
        IF \E i \in 1..Len(CallerFlags) : IsModeFlag(CallerFlags[i])
        THEN sim_cmd = CallerFlags
        ELSE sim_cmd = CallerFlags \o <<"-c">>

\* The names the runner gives its suite instances.
RunnerInstances == artifacts[tr_path].instances

\* No element of the list is there twice.
NoRepeats(list) == \A i, j \in 1..Len(list) : list[i] = list[j] => i = j

(***************************************************************************)
(* C21: the suites of one run, one for each directory, get distinct        *)
(* generated files and distinct names, also when the directories' names    *)
(* differ only in '/', '.', '-' or '_': no file the run has written is     *)
(* written again by a later suite, the manifest lists no suite's file      *)
(* twice, and the runner declares no two instances of one name.            *)
(***************************************************************************)
C21_SuitesKeptApart ==
    /\ NoRepeats(writes)
    /\ NoRepeats(generated_test_suites)
    /\ ManifestClosed =>
          \A k \in 1..Len(generated_test_suites) :
              Cardinality(Places(Lines(svunit_f), Str(generated_test_suites[k]))) <= 1
    /\ tr_path \in DOMAIN artifacts => NoRepeats(RunnerInstances)

\* The instance names a suite file generated for the k-th suite declares.
SuiteInstances(k) == create_testsuite(ts_path(suites[k].dir), suites[k].tests).instances

(***************************************************************************)
(* C22: whatever the directories to search (the same one twice, one       *)
(* inside another) and whatever the test names (two names of one file),    *)
(* the list discover() returns holds each file path at most once, so no    *)
(* suite holds a test file twice and no suite's generated file declares    *)
(* two instances of one name; a further discover() call starts from an     *)
(* empty list, its result being that of the first call.                    *)
(***************************************************************************)
C22_EachFileOnce ==
    /\ NoRepeats(found_tests)
    /\ \A k \in 1..Len(suites) :
          /\ NoRepeats(suites[k].tests)
          /\ NoRepeats(SuiteInstances(k))
    /\ pc \in {"discovered", "grouped"} => found_tests = discover

\* The manifest on disk has a line for the file.
ListedInManifest(test) == Places(Lines(svunit_f), Str(test)) # {}

\* The file generated for the k-th suite declares an instance for the file:
\* one of the module the file declares.
DeclaredInSuite(k, test) ==
    LET module_name == parse_unit_test_name(test)
        text == codegen_calls[k].text
    IN  /\ module_name # <<>>
        /\ \E i \in 1..Len(text.classes) : text.classes[i] = module_name

(***************************************************************************)
(* C23: the manifest and the generated suite files agree on what belongs   *)
(* to a suite.  Once the manifest is written, a test file of a suite has   *)
(* a line in the manifest if and only if the suite's generated file        *)
(* declares an instance for it; a file left out of its suite because no    *)
(* module name was found in it has no line in the manifest.                *)
(***************************************************************************)
C23_ManifestMatchesSuites ==
    ManifestClosed =>
        \A k \in 1..Len(suites) :
            \A j \in 1..Len(suites[k].tests) :
                ListedInManifest(suites[k].tests[j]) <=> DeclaredInSuite(k, suites[k].tests[j])

====
